---- MODULE Spec2Model ----
(***************************************************************************)
(* Model of cli_ha_statistics.py: the `export` and `import` commands run   *)
(* against the two statistics tables of a Home Assistant recorder store.   *)
(*                                                                         *)
(* Floating point values are fixed-point integers whose unit is one third  *)
(* of 1e-6, so that 1e-6 is Tolerance units and the six-decimal formatting *)
(* "{v:.6f}" rounds to the nearest multiple of Tolerance without ties.     *)
(* A NULL column of a stored record is a column absent from the record's   *)
(* domain.  A CSV cell is [s, n]: s is the literal text, or "#" for a      *)
(* numeric text whose value is n.  Text is taken as already stripped of    *)
(* surrounding blanks.  The tables have the columns of TblCols; the other  *)
(* columns of the recorder schema are left out.                            *)
(***************************************************************************)
EXTENDS Integers, Sequences, FiniteSets, TLC

MaxRows == 2
MaxRecords == 3

Tolerance == 3

NaN == 0 - 1

Tables == {"statistics", "statistics_short_term"}

TableOrder == <<"statistics", "statistics_short_term">>

TblCols == <<"id", "created_ts", "metadata_id", "start_ts", "mean", "sum">>

IntCols == {"id", "metadata_id"}

metadata_cols == {"id", "table", "entity", "date", "metadata_id", "created_ts", "start_ts"}

Header == <<"table", "entity (ignored)", "date (ignored)">> \o TblCols

statistics_meta == ("sensor.a" :> 5)

Txt(s) == [s |-> s, n |-> 0]

Num(n) == [s |-> "#", n |-> n]

NoneCell == [s |-> "<None>", n |-> 0]

Range(f) == {f[x] : x \in DOMAIN f}

Abs(x) == IF x < 0 THEN 0 - x ELSE x

(***************************************************************************)
(* csv.DictReader                                                          *)
(***************************************************************************)
\* The dict DictReader builds for one line: short lines are padded with
\* None (restval), the surplus of a long line goes under the key None.
DictRow(line) ==
  [f |-> [k \in Range(Header) |->
            LET i == CHOOSE j \in 1..Len(Header) : Header[j] = k
            IN IF i <= Len(line) THEN line[i] ELSE NoneCell],
   rest |-> Len(line) > Len(Header)]

\* len(row)
RowLen(row) == Len(Header) + (IF row.rest THEN 1 ELSE 0)

\* One step of the first loop of import_cmd: prev is its state before the
\* line.  The reader skips a line without fields, and enumerate counts the
\* rows the reader yields, from 2.
ReadLine(prev, line, row) ==
  IF prev.err # 0 \/ line = <<>> THEN prev
  ELSE IF RowLen(row) # Len(Header)
       THEN [err |-> Len(prev.rows) + 2, rows |-> <<>>]
       ELSE [err |-> 0, rows |-> Append(prev.rows, row.f)]

\* The first loop of import_cmd over the first k lines: the rows read, or
\* the line number reported for a structure error (err # 0).
RECURSIVE ReadCsv(_, _)
ReadCsv(file, k) ==
  IF k = 0 THEN [err |-> 0, rows |-> <<>>]
  ELSE ReadLine(ReadCsv(file, k - 1), file[k], DictRow(file[k]))

(***************************************************************************)
(* Row parsing and classification                                          *)
(***************************************************************************)
\* int(val) / float(val) succeed
Convertible(col, cell) ==
  \/ cell.s = "#"
  \/ cell.s = "nan" /\ col \notin IntCols

Value(cell) == IF cell.s = "nan" THEN NaN ELSE cell.n

\* The dict `data` after the first k table columns, as an ordered sequence
\* of <<column, value>> pairs.
RECURSIVE ParseCols(_, _)
ParseCols(row, k) ==
  IF k = 0 THEN <<>>
  ELSE LET col  == TblCols[k]
           cell == row[col]
           prev == ParseCols(row, k - 1)
       IN IF cell.s = "" THEN prev
          ELSE IF Convertible(col, cell)
               THEN Append(prev, <<col, Value(cell)>>)
               ELSE prev

Keys(data) == {data[i][1] : i \in DOMAIN data}

KeySeq(data) == [i \in DOMAIN data |-> data[i][1]]

Get(data, col) == data[CHOOSE i \in DOMAIN data : data[i][1] = col][2]

\* data.setdefault('created_ts', data['start_ts'])
SetDefaultCreated(data) ==
  IF "created_ts" \in Keys(data) THEN data
  ELSE Append(data, <<"created_ts", Get(data, "start_ts")>>)

\* f"{v:.6f}": the nearest multiple of 1e-6
Fmt6(v) ==
  IF v = NaN THEN NaN
  ELSE ((2 * v + Tolerance) \div (2 * Tolerance)) * Tolerance

\* str(v) if isinstance(v, int) else f"{v:.6f}"
FmtVal(col, v) == IF col \in IntCols THEN v ELSE Fmt6(v)

ValSeq(data) == [i \in DOMAIN data |-> FmtVal(data[i][1], data[i][2])]

DeleteStmt(t, id) ==
  [kind |-> "DELETE", table |-> t, where |-> <<id>>, cols |-> <<>>, vals |-> <<>>]

InsertStmt(t, data) ==
  [kind |-> "INSERT", table |-> t, where |-> <<>>,
   cols |-> KeySeq(data), vals |-> ValSeq(data)]

UpdateStmt(t, id, cols, data) ==
  [kind |-> "UPDATE", table |-> t, where |-> <<id>>, cols |-> cols,
   vals |-> [i \in DOMAIN cols |-> FmtVal(cols[i], Get(data, cols[i]))]]

\* `if record_id`: an id of 0 is falsy, as an absent id is
Truthy(data) == "id" \in Keys(data) /\ Get(data, "id") # 0

\* abs(float(old) - float(new)) > 1e-6; every comparison with nan is False
Differs(old, new) == new # NaN /\ Abs(old - new) > Tolerance

\* The elements of seq that satisfy the membership in S, in seq's order
RECURSIVE Filter(_, _)
Filter(seq, S) ==
  IF seq = <<>> THEN <<>>
  ELSE IF Head(seq) \in S THEN <<Head(seq)>> \o Filter(Tail(seq), S)
       ELSE Filter(Tail(seq), S)

NoOp(kind, msg, reads) == [kind |-> kind, op |-> <<>>, msg |-> msg, reads |-> reads]

OneOp(kind, stmt, reads) == [kind |-> kind, op |-> <<stmt>>, msg |-> "", reads |-> reads]

\* The update branch for a record found in the store.
CompareRow(t, id, data, cur, order) ==
  LET data_cols == Keys(data) \ metadata_cols
      changed   == {c \in data_cols : Differs(cur[c], Get(data, c))}
  IN IF \E c \in data_cols : c \notin DOMAIN cur
     THEN NoOp("none", "Error processing row", 1)
     ELSE IF changed # {}
          THEN OneOp("update", UpdateStmt(t, id, Filter(order, changed), data), 1)
          ELSE NoOp("skip", "", 1)

\* The update branch for a record the store does not hold.
Reclassify(t, data) == OneOp("insert", InsertStmt(t, data), 1)

\* One iteration of the second loop of import_cmd.  `order` is the
\* iteration order of the set data_cols in this process.
ProcessRow(row, st, order) ==
  LET tbl_name == row["table"].s
  IN IF tbl_name \notin Tables
     THEN NoOp("none", "Skipping row with invalid table", 0)
     ELSE IF \E k \in 1..Len(TblCols) : row[TblCols[k]] = NoneCell
     THEN NoOp("none", "Error processing row", 0)
     ELSE
       LET data      == ParseCols(row, Len(TblCols))
           data_cols == Keys(data) \ metadata_cols
           truthy    == Truthy(data)
       IN IF truthy /\ data_cols = {}
          THEN OneOp("delete", DeleteStmt(tbl_name, Get(data, "id")), 0)
          ELSE IF ~truthy
          THEN IF "metadata_id" \notin Keys(data) \/ "start_ts" \notin Keys(data)
               THEN NoOp("none", "Warning: missing metadata_id or start_ts", 0)
               ELSE OneOp("insert", InsertStmt(tbl_name, SetDefaultCreated(data)), 0)
          ELSE LET id == Get(data, "id")
               IN IF id \notin DOMAIN st[tbl_name]
                  THEN Reclassify(tbl_name, data)
                  ELSE CompareRow(tbl_name, id, data, st[tbl_name][id], order)

(***************************************************************************)
(* The store: statement execution with SQLite's semantics (the default     *)
(* DB URL): a failed statement changes nothing and leaves the transaction  *)
(* open.                                                                   *)
(***************************************************************************)
MaxOf(S) == CHOOSE m \in S : \A x \in S : x <= m

\* The rowid an INSERT without id is given
NextId(tbl) == IF DOMAIN tbl = {} THEN 1 ELSE MaxOf(DOMAIN tbl) + 1

ColVal(op, c) == op.vals[CHOOSE i \in DOMAIN op.cols : op.cols[i] = c]

\* The non-id columns of a statement as a record of the table
StmtRec(op) == [c \in Range(op.cols) \ {"id"} |-> ColVal(op, c)]

\* conn.execute(text(op)): [ok, store]
ExecStmt(st, op) ==
  LET tbl == st[op.table]
  IN IF NaN \in Range(op.vals)
     THEN [ok |-> FALSE, store |-> st]
     ELSE IF op.kind = "DELETE"
     THEN [ok |-> TRUE,
           store |-> [st EXCEPT ![op.table] =
                        [k \in DOMAIN tbl \ {op.where[1]} |-> tbl[k]]]]
     ELSE IF op.kind = "UPDATE"
     THEN [ok |-> TRUE,
           store |-> IF op.where[1] \in DOMAIN tbl
                     THEN [st EXCEPT ![op.table][op.where[1]] = StmtRec(op) @@ @]
                     ELSE st]
     ELSE IF "id" \in Range(op.cols) /\ ColVal(op, "id") \in DOMAIN tbl
     THEN [ok |-> FALSE, store |-> st]
     ELSE LET id == IF "id" \in Range(op.cols) THEN ColVal(op, "id") ELSE NextId(tbl)
          IN [ok |-> TRUE,
              store |-> [st EXCEPT ![op.table] = (id :> StmtRec(op)) @@ tbl]]

\* One pass of the loop over operations inside engine.begin(): prev is the
\* state before statement op, r the outcome of executing it.  ok[i] tells
\* whether statement i succeeded, errors lists the statements reported by
\* "Error executing".
ExecStep(prev, op, r) ==
  [store |-> r.store, ok |-> Append(prev.ok, r.ok),
   errors |-> IF r.ok THEN prev.errors ELSE Append(prev.errors, op)]

NotExecuted(st) == [store |-> st, ok |-> <<>>, errors |-> <<>>]

\* The loop abandoned at the first failing statement
RECURSIVE ExecOpsStopAtFailure(_, _, _)
ExecOpsStopAtFailure(st, ops, k) ==
  IF k = 0 THEN NotExecuted(st)
  ELSE LET prev == ExecOpsStopAtFailure(st, ops, k - 1)
       IN IF prev.errors = <<>>
          THEN ExecStep(prev, ops[k], ExecStmt(prev.store, ops[k]))
          ELSE prev

\* The loop over the first k operations
RECURSIVE ExecOps(_, _, _)
ExecOps(st, ops, k) ==
  IF k = 0 THEN NotExecuted(st)
  ELSE LET prev == ExecOps(st, ops, k - 1)
       IN ExecStep(prev, ops[k], ExecStmt(prev.store, ops[k]))

\* The store had the dry-run branch fallen through to the execution loop
StoreAfterNoReturn(dry_run, st, ex) == ex.store

\* The store when import_cmd returns: a dry run returns before the loop
StoreAfter(dry_run, st, ex) == IF dry_run THEN st ELSE ex.store

(***************************************************************************)
(* export                                                                  *)
(***************************************************************************)
RECURSIVE SortedSeq(_)
SortedSeq(S) ==
  IF S = {} THEN <<>>
  ELSE LET m == CHOOSE x \in S : \A y \in S : x <= y
       IN <<m>> \o SortedSeq(S \ {m})

\* An option is <<>> (not given) or <<v>>; `if after_ts:` also skips 0.
Given(opt) == opt # <<>> /\ opt[1] # 0

\* The WHERE clause of the export query.  A comparison with NULL is not
\* true; the min and max columns are outside the modelled schema.
Selected(rec, mid, above, below, after, before) ==
  /\ "metadata_id" \in DOMAIN rec /\ rec["metadata_id"] = mid
  /\ Given(after) => "start_ts" \in DOMAIN rec /\ rec["start_ts"] >= after[1]
  /\ Given(before) => "start_ts" \in DOMAIN rec /\ rec["start_ts"] <= before[1]
  /\ above # <<>> /\ below # <<>> =>
        "mean" \in DOMAIN rec /\ rec["mean"] > above[1] /\ rec["mean"] < below[1]
  /\ above # <<>> /\ below = <<>> => "mean" \in DOMAIN rec /\ rec["mean"] > above[1]
  /\ above = <<>> /\ below # <<>> => "mean" \in DOMAIN rec /\ rec["mean"] < below[1]

\* The records export visits for one entity, in the order it visits them
EntityRecords(st, ent, above, below, after, before) ==
  IF ent \notin DOMAIN statistics_meta THEN <<>>
  ELSE LET mid == statistics_meta[ent]
           Of(t) == LET ids == SortedSeq({id \in DOMAIN st[t] :
                                  Selected(st[t][id], mid, above, below, after, before)})
                    IN [i \in DOMAIN ids |-> [t |-> t, ent |-> ent, id |-> ids[i]]]
       IN Of(TableOrder[1]) \o Of(TableOrder[2])

RECURSIVE ExportRecords(_, _, _, _, _, _)
ExportRecords(st, entities, above, below, after, before) ==
  IF entities = <<>> THEN <<>>
  ELSE EntityRecords(st, Head(entities), above, below, after, before)
       \o ExportRecords(st, Tail(entities), above, below, after, before)

\* Model units in one second
Second == 1000000 * Tolerance

\* ts_to_datetime(ts).replace(microsecond=0), formatted
DateCell(ts) == [s |-> "date", n |-> ts \div Second]

\* writer.writerow: a number is written by repr, None as the empty text
ExportLine(st, r) ==
  LET rec == st[r.t][r.id]
  IN <<Txt(r.t), Txt(r.ent), DateCell(rec["start_ts"])>>
     \o [i \in DOMAIN TblCols |->
           IF TblCols[i] = "id" THEN Num(r.id)
           ELSE IF TblCols[i] \in DOMAIN rec THEN Num(rec[TblCols[i]])
           ELSE Txt("")]

\* The lines written for the first k records; a record whose start_ts is
\* NULL raises in ts_to_datetime and ends the command.
RECURSIVE ExportLines(_, _, _)
ExportLines(st, recs, k) ==
  IF k = 0 THEN [lines |-> <<>>, crashed |-> FALSE]
  ELSE LET prev == ExportLines(st, recs, k - 1)
       IN IF prev.crashed THEN prev
          ELSE IF "start_ts" \notin DOMAIN st[recs[k].t][recs[k].id]
               THEN [lines |-> prev.lines, crashed |-> TRUE]
               ELSE [lines |-> Append(prev.lines, ExportLine(st, recs[k])),
                     crashed |-> FALSE]

(***************************************************************************)
(* Inputs                                                                  *)
(***************************************************************************)
E == Txt("")

L(t, id, cts, mid, sts, mean, sum) ==
  <<Txt(t), Txt("sensor.a"), Txt("date"), id, cts, mid, sts, mean, sum>>

InsertLine   == L("statistics", E, E, Num(5), Num(60), Num(4), E)
DeleteLine   == L("statistics", Num(1), E, E, E, E, E)
ZeroIdLine   == L("statistics", Num(0), E, E, E, E, E)
UpdateLine   == L("statistics", Num(1), E, E, E, Num(10), Num(40))
NewIdLine    == L("statistics_short_term", Num(2), E, E, E, Num(10), E)
BadFieldLine == L("statistics", Num(1), E, E, E, Txt("abc"), E)
NanLine      == L("statistics", E, E, Num(5), Num(60), Txt("nan"), E)
NearLine     == L("statistics", Num(1), E, E, E, Num(9), E)
BogusLine    == L("bogus", Num(1), E, E, E, Num(10), E)
LongLine     == Append(DeleteLine, Txt("x"))
BlankLine    == <<>>
ShortLine    == SubSeq(UpdateLine, 1, Len(Header) - 1)

Lines ==
  {InsertLine, DeleteLine, ZeroIdLine, UpdateLine, NearLine, NewIdLine,
   BadFieldLine, NanLine, BogusLine, LongLine, ShortLine, BlankLine}

InputFiles == UNION {[1..n -> Lines] : n \in 0..MaxRows}

RFull == [created_ts |-> 30, metadata_id |-> 5, start_ts |-> 30, mean |-> 6, sum |-> 30]
RMean == [created_ts |-> 30, metadata_id |-> 5, start_ts |-> 30, mean |-> 6]
RNull == [created_ts |-> 30, metadata_id |-> 5, start_ts |-> 30]

NoRows == [id \in {} |-> RNull]

InitStores ==
  {[statistics |-> a, statistics_short_term |-> b] :
     a \in {(1 :> RFull), (1 :> RMean)}, b \in {NoRows, (1 :> RNull)}}

\* The iteration orders a process can give the set data_cols
SetOrders == {<<"mean", "sum">>, <<"sum", "mean">>}

NoFilter == [above |-> <<>>, below |-> <<>>, after |-> <<>>, before |-> <<>>]

ExportArgs ==
  {[entities |-> <<"sensor.x", "sensor.a">>] @@ NoFilter,
   [entities |-> <<"sensor.a">>] @@ [NoFilter EXCEPT !.above = <<5>>, !.below = <<9>>],
   [entities |-> <<"sensor.a">>] @@ [NoFilter EXCEPT !.above = <<6>>],
   [entities |-> <<"sensor.a">>] @@ [NoFilter EXCEPT !.below = <<6>>, !.after = <<30>>],
   [entities |-> <<"sensor.a">>] @@ [NoFilter EXCEPT !.before = <<30>>]}

(***************************************************************************)
(* State                                                                   *)
(***************************************************************************)
\* store: the two tables; csv_file: the data lines of the input file;
\* cmd: the command that ran last; last: what it reported; turn: flips
\* with every command.
VARIABLES store, csv_file, cmd, last, turn

vars == <<store, csv_file, cmd, last, turn>>

Changes(kinds) ==
  [k \in {"insert", "update", "delete", "skip"} |->
     Cardinality({i \in DOMAIN kinds : kinds[i] = k})]

RECURSIVE Flatten(_)
Flatten(ss) == IF ss = <<>> THEN <<>> ELSE Head(ss) \o Flatten(Tail(ss))

NoRun ==
  [dry_run |-> FALSE, file |-> <<>>, pre |-> [t \in Tables |-> NoRows], err |-> 0,
   rows |-> <<>>, ops |-> <<>>, changes |-> Changes(<<>>), reads |-> 0,
   printed |-> <<>>, ok |-> <<>>, errors |-> <<>>, summary |-> FALSE]

Init ==
  /\ store \in InitStores
  /\ csv_file \in InputFiles
  /\ cmd = "none"
  /\ last = NoRun
  /\ turn = 0

RECURSIVE SumReads(_)
SumReads(rows) == IF rows = <<>> THEN 0 ELSE Head(rows).reads + SumReads(Tail(rows))

\* The tables hold at most MaxRecords rows each
Fits(st) == \A t \in Tables : Cardinality(DOMAIN st[t]) <= MaxRecords

\* What import_cmd reports once the rows are classified, and the store it
\* leaves (post).  ex is the outcome of executing ops.
Report(dry_run, file, st, rows, ops, ex) ==
  [dry_run |-> dry_run, file |-> file, pre |-> st, err |-> 0,
   rows |-> rows, ops |-> ops,
   changes |-> Changes([i \in DOMAIN rows |-> rows[i].kind]),
   reads |-> SumReads(rows),
   printed |-> IF dry_run THEN ops ELSE <<>>,
   ok |-> IF dry_run THEN <<>> ELSE ex.ok,
   errors |-> IF dry_run THEN <<>> ELSE ex.errors,
   summary |-> TRUE,
   post |-> StoreAfter(dry_run, st, ex)]

Classified(dry_run, file, st, rows, ops) ==
  Report(dry_run, file, st, rows, ops, ExecOps(st, ops, Len(ops)))

\* import_cmd on the lines of file against the store st
RunImport(dry_run, file, st, order) ==
  LET rd == ReadCsv(file, Len(file))
  IN IF rd.err # 0
     THEN [NoRun EXCEPT !.dry_run = dry_run, !.file = file, !.pre = st, !.err = rd.err]
            @@ [post |-> st]
     ELSE LET rows == [i \in DOMAIN rd.rows |->
                         ProcessRow(rd.rows[i], st, order) @@ [raw |-> rd.rows[i]]]
          IN Classified(dry_run, file, st, rows, Flatten([i \in DOMAIN rows |-> rows[i].op]))

WithoutPost(r) == [f \in DOMAIN r \ {"post"} |-> r[f]]

\* import_cmd with the file csv_file
Import(dry_run, order) ==
  /\ \E r \in {RunImport(dry_run, csv_file, store, order)} :
       /\ Fits(r.post)
       /\ store' = r.post
       /\ last' = WithoutPost(r)
  /\ cmd' = "import"
  /\ turn' = 1 - turn
  /\ UNCHANGED csv_file

\* export, its output kept as the next input file
Export(a) ==
  /\ LET recs == ExportRecords(store, a.entities, a.above, a.below, a.after, a.before)
     IN csv_file' = ExportLines(store, recs, Len(recs)).lines
  /\ cmd' = "export"
  /\ last' = NoRun
  /\ turn' = 1 - turn
  /\ UNCHANGED store

Next ==
  \/ \E dry_run \in BOOLEAN, order \in SetOrders : Import(dry_run, order)
  \/ \E a \in ExportArgs : Export(a)

Spec == Init /\ [][Next]_vars

(***************************************************************************)
(* Properties                                                              *)
(***************************************************************************)
Imported == cmd = "import"

\* The step is an import run
ImportStep == cmd' = "import" /\ turn' # turn

DataCols == Range(TblCols) \ metadata_cols

IsInsert(op) == op.kind = "INSERT"

\* Row r of the last run names a valid table and carries an integer id
HasId(r) == r.raw["table"].s \in Tables /\ r.raw["id"].s = "#"

\* The data fields row r supplies
Supplied(r) == {c \in DataCols : r.raw[c].s # ""}

\* C1: after an apply run whose statements all succeeded, a second run of
\* the same file against the resulting store generates no statement and
\* counts no insert, update or delete.
C1_SecondRunIsNoOp ==
  [][(/\ Imported /\ ~last.dry_run /\ last.err = 0
      /\ \A i \in DOMAIN last.ok : last.ok[i]
      /\ ImportStep /\ last'.file = last.file /\ last'.pre = store)
     => /\ last'.ops = <<>>
        /\ last'.changes["insert"] = 0
        /\ last'.changes["update"] = 0
        /\ last'.changes["delete"] = 0]_vars

\* C2: the statements a dry run prints are, in order, the statements the
\* apply run of the same file against the same store submits, and the two
\* runs report equal counts.
C2_PreviewPredictsApply ==
  [][(/\ Imported /\ last.dry_run
      /\ ImportStep /\ ~last'.dry_run
      /\ last'.file = last.file /\ last'.pre = last.pre)
     => /\ last'.ops = last.printed
        /\ last'.changes = last.changes]_vars

\* C3: a dry run submits nothing and leaves both tables as they were.
C3_DryRunLeavesStore ==
  (Imported /\ last.dry_run) => (store = last.pre /\ last.ok = <<>>)

\* A dry run has printed statements that would change the store.
C3_Witness ==
  /\ Imported /\ last.dry_run /\ store = last.pre
  /\ ExecOps(last.pre, last.printed, Len(last.printed)).store # last.pre

\* C4: the file export writes, imported against the unchanged store, is
\* all skips: no statement, every row counted as skip.
C4_RoundTripSkips ==
  [][(cmd = "export" /\ ImportStep)
     => /\ last'.err = 0
        /\ last'.ops = <<>>
        /\ Len(last'.rows) = Len(csv_file)
        /\ \A i \in DOMAIN last'.rows : last'.rows[i].kind = "skip"]_vars

\* C5: a row of a valid table with an integer id (0 included) and no data
\* field generates exactly the DELETE of that id and counts as delete.
C5_IdWithoutDataDeletes ==
  Imported =>
    \A i \in DOMAIN last.rows :
      LET r == last.rows[i]
      IN (HasId(r) /\ Supplied(r) = {})
         => /\ r.kind = "delete"
            /\ r.op = <<DeleteStmt(r.raw["table"].s, r.raw["id"].n)>>

\* C6: a row with an id and numeric data fields whose record is stored
\* generates the UPDATE of exactly the supplied fields that differ from
\* the stored value by more than the tolerance, and counts as skip without
\* a statement when none does.
C6_MinimalDiff ==
  Imported =>
    \A i \in DOMAIN last.rows :
      LET r   == last.rows[i]
          t   == r.raw["table"].s
          id  == r.raw["id"].n
          cur == last.pre[t][id]
          D   == {c \in Supplied(r) :
                    c \notin DOMAIN cur \/ Abs(cur[c] - r.raw[c].n) > Tolerance}
      IN (/\ HasId(r) /\ Supplied(r) # {}
          /\ \A c \in Supplied(r) : r.raw[c].s = "#"
          /\ id \in DOMAIN last.pre[t])
         => IF D = {}
            THEN r.kind = "skip" /\ r.op = <<>>
            ELSE /\ r.kind = "update"
                 /\ Len(r.op) = 1
                 /\ r.op[1].kind = "UPDATE"
                 /\ r.op[1].where = <<id>>
                 /\ Range(r.op[1].cols) = D

\* The lines of the file whose field count is not the header's (the
\* reader yields no row for a line without fields)
Malformed(file) ==
  {k \in DOMAIN file : file[k] # <<>> /\ Len(file[k]) # Len(Header)}

\* C7: a file with a data row of more or fewer fields than the header
\* aborts the run: an error naming the line of the first such row (the
\* header is line 1), no row classified, no statement, no lookup, no write.
C7_StructureErrorAborts ==
  (Imported /\ Malformed(last.file) # {})
  => /\ last.err = 1 + CHOOSE k \in Malformed(last.file) :
                         \A j \in Malformed(last.file) : k <= j
     /\ last.rows = <<>> /\ last.ops = <<>> /\ last.reads = 0
     /\ last.ok = <<>> /\ store = last.pre

\* C8: every INSERT generated carries no id and carries metadata_id and
\* start_ts.
C8_InsertDescriptor ==
  Imported =>
    \A i \in DOMAIN last.ops :
      IsInsert(last.ops[i])
      => /\ "id" \notin Range(last.ops[i].cols)
         /\ {"metadata_id", "start_ts"} \subseteq Range(last.ops[i].cols)

\* C9: a row with a supplied field that does not convert to a number
\* generates no statement and changes no counter.
C9_BadFieldExcludesRow ==
  Imported =>
    \A i \in DOMAIN last.rows :
      LET r == last.rows[i]
      IN (\E c \in Range(TblCols) :
            r.raw[c].s \notin {"", "<None>"} /\ ~Convertible(c, r.raw[c]))
         => r.kind = "none" /\ r.op = <<>>

\* A successful statement after k on the same table
LaterWrite(k) ==
  \E j \in DOMAIN last.ops :
    j > k /\ last.ok[j] /\ last.ops[j].table = last.ops[k].table

\* The effect of statement op shows in the store
Committed(op) ==
  LET tbl == store[op.table]
      Holds(id) == id \in DOMAIN tbl
                   /\ \A c \in Range(op.cols) \ {"id"} :
                        c \in DOMAIN tbl[id] /\ tbl[id][c] = ColVal(op, c)
  IN IF op.kind = "DELETE" THEN op.where[1] \notin DOMAIN tbl
     ELSE IF op.kind = "UPDATE" THEN op.where[1] \in DOMAIN tbl => Holds(op.where[1])
     ELSE IF "id" \in Range(op.cols) THEN Holds(ColVal(op, "id"))
     ELSE \E id \in DOMAIN tbl : Holds(id)

\* The statements of ops marked as failed by ok, in order
RECURSIVE Failed(_, _)
Failed(ops, ok) ==
  IF ops = <<>> \/ ok = <<>> THEN <<>>
  ELSE (IF Head(ok) THEN <<>> ELSE <<Head(ops)>>) \o Failed(Tail(ops), Tail(ok))

\* C10: in an apply run every statement is executed, in input order,
\* whether or not an earlier one failed; each failure is reported; the
\* effect of each successful statement is in the store when the run ends
\* (unless a later successful statement wrote the same table); and the
\* summary is emitted.
C10_FailureIsolation ==
  (Imported /\ ~last.dry_run /\ last.err = 0)
  => /\ Len(last.ok) = Len(last.ops)
     /\ last.summary
     /\ last.errors = Failed(last.ops, last.ok)
     /\ \A k \in DOMAIN last.ops :
          (last.ok[k] /\ ~LaterWrite(k)) => Committed(last.ops[k])

\* A statement failed, a later one succeeded and changed the store.
C10_Witness ==
  /\ Imported /\ ~last.dry_run /\ last.summary
  /\ \E j, k \in DOMAIN last.ops :
       /\ j < k /\ ~last.ok[j] /\ last.ok[k]
       /\ Committed(last.ops[k])
       /\ store[last.ops[k].table] # last.pre[last.ops[k].table]

====
